---- MODULE Spec2Model ----
(***************************************************************************)
(* A model of the contract-ABI core of boolw/go-web3: the ABIv2 decoder    *)
(* (abi/decode.go), the JSON descriptor parser with overload renaming,     *)
(* the lazily cached method/event ids, event log matching (abi/abi.go)     *)
(* and the deep-copy operations (abi/clone.go).                            *)
(*                                                                         *)
(* Every part of the program has its own specification over its own        *)
(* variables; the variables of the other parts keep their initial values.  *)
(***************************************************************************)
EXTENDS Integers, Sequences, FiniteSets, TLC

\* ------------------------------------------------------------------------
\* Bounds of the model
\* ------------------------------------------------------------------------
\* The longest input, in 32-byte words.
MaxWords == 3
\* The most bytes cut off the end of the last word of an input.
MaxCut == 1
\* The most fields of a descriptor.
MaxFields == 4
\* The most calls made on the Method and the Event.
MaxCalls == 3
\* The most topics of a log.
MaxTopics == 2
\* The most words of a buffer readSlice is called on.
MaxBufWords == 1
\* The largest magnitude of the start and the length readSlice is called with.
MaxArg == 34
\* The goroutines that share the Method and the Event.
NGoroutines == 2

VARIABLES
    typ,      \* Decode: index in Types of the type t handed to Decode
    input,    \* Decode: the words of the array underlying the input
    inLen,    \* Decode: len(input) in bytes
    inCap,    \* Decode: cap(input) in bytes
    pc,       \* Decode: position in Decode
    orig,     \* decodeTuple/decodeArraySlice: the origin slice
    data,     \* decodeTuple/decodeArraySlice: the cursor slice
    size,     \* decodeArraySlice: the number of elements
    indx,     \* decodeTuple/decodeArraySlice: the loop index
    res,      \* decodeTuple/decodeArraySlice: the result built so far
    entry,    \* the slice handed to decode for the last element
    ret,      \* what Decode returned: [st, val, tail]
    oob,      \* whether a byte at an index >= len(input) was read
    abi,      \* NewABI: the ABI being parsed: [Constructor, Methods, Events]
    ppc,      \* NewABI: position in NewABIFromReader
    perr,     \* NewABI: whether UnmarshalJSON returned an error
    nfields,  \* NewABI: the number of fields UnmarshalJSON has taken
    last,     \* NewABI: the field taken last
    counts,   \* NewABI: the function and event fields parsed so far
    out,      \* NewABI: the document returned, if one was
    heap,     \* objects: the Types, TupleElems, Methods, Events and byte arrays
    method,   \* objects: the address of the Method
    event,    \* objects: the address of the Event
    pool,     \* objects: keccakPool, the states of the hashers in it
    ncalls,   \* objects: the number of calls made
    called,   \* objects: the last call and what it returned
    gor,      \* goroutines: where each goroutine is in its call of ID
    stores,   \* goroutines: the stores of an id completed, per object
    fn,       \* functions: the function called on its own
    actual,   \* functions: its arguments
    got       \* functions: what it returned

decVars == <<typ, input, inLen, inCap, pc, orig, data, size, indx, res, entry, ret, oob>>

abiVars == <<abi, ppc, perr, nfields, last, counts, out>>

objVars == <<heap, method, event, pool, ncalls, called>>

goVars == <<gor, stores>>

fnVars == <<fn, actual, got>>

vars == <<decVars, abiVars, objVars, goVars, fnVars>>

\* ------------------------------------------------------------------------
\* Types (the fields of abi.Type that decoding reads)
\* ------------------------------------------------------------------------
NoType == [kind |-> "none"]

Prim(kind, sz, raw) ==
    [kind |-> kind, size |-> sz, elem |-> NoType, tuple |-> <<>>, raw |-> raw]

SliceOf(e) ==
    [kind |-> "slice", size |-> 0, elem |-> e, tuple |-> <<>>, raw |-> e.raw \o "[]"]

ArrayOf(e, n, raw) ==
    [kind |-> "array", size |-> n, elem |-> e, tuple |-> <<>>, raw |-> raw]

TupleElem(name, e) == [Name |-> name, Elem |-> e, Indexed |-> FALSE]

TupleOf(elems) ==
    [kind |-> "tuple", size |-> 0, elem |-> NoType, tuple |-> elems, raw |-> "tuple"]

TBool == Prim("bool", 0, "bool")
TUint256 == Prim("uint", 256, "uint256")
TInt256 == Prim("int", 256, "int256")
TUint8 == Prim("uint", 8, "uint8")
TInt16 == Prim("int", 16, "int16")
TString == Prim("string", 0, "string")
TBytes == Prim("bytes", 0, "bytes")
TAddress == Prim("address", 0, "address")
TBytes4 == Prim("fixedbytes", 4, "bytes4")
TFunction == Prim("function", 0, "function")

\* The types Decode is called with.
Types == <<
    TBool,
    TInt16,
    TString,
    SliceOf(TUint8),
    ArrayOf(TBool, 2, "bool[2]"),
    ArrayOf(TBytes, 1, "bytes[1]"),
    TupleOf(<<TupleElem("a", TBool), TupleElem("", TInt256)>>),
    TupleOf(<<TupleElem("s", TString)>>),
    TupleOf(<<TupleElem("n", TUint256), TupleElem("", TBytes)>>),
    TupleOf(<<TupleElem("x", TString), TupleElem("x", TBool)>>),
    TupleOf(<<TupleElem("t", TupleOf(<<TupleElem("", TString)>>)), TupleElem("1", TBool)>>),
    TupleOf(<<TupleElem("to", TAddress), TupleElem("sel", TBytes4), TupleElem("f", TFunction)>>),
    TupleOf(<<TupleElem("1", TBool), TupleElem("", TUint8)>>)
>>

RECURSIVE isDynamicType(_)
RECURSIVE anyDynamic(_, _)
\* Whether one of the tuple elements from position i on is dynamic.
anyDynamic(elems, i) ==
    IF i > Len(elems) THEN FALSE
    ELSE isDynamicType(elems[i].Elem) \/ anyDynamic(elems, i + 1)

isDynamicType(t) ==
    CASE t.kind \in {"string", "bytes", "slice"} -> TRUE
      [] t.kind = "array" -> isDynamicType(t.elem)
      [] t.kind = "tuple" -> anyDynamic(t.tuple, 1)
      [] OTHER -> FALSE

isVariableInput(t) == t.kind \in {"string", "bytes", "slice"}

\* The native representation of an integer type: its width in bytes, or 32
\* for the big-integer representation.
nativeBytes(t) == IF t.size \in {8, 16, 32, 64} THEN t.size \div 8 ELSE 32

\* ------------------------------------------------------------------------
\* Bytes and words
\* ------------------------------------------------------------------------
\* A 32-byte word that is zero but for bytes 0, 24 and 31 (0-based).
MkWord(b0, b24, b31) ==
    [i \in 1..32 |-> CASE i = 1 -> b0 [] i = 25 -> b24 [] i = 32 -> b31 [] OTHER -> 0]

\* The words inputs are made of.
Vocab == <<
    MkWord(0, 0, 0),                                   \* 0, false, ""
    MkWord(0, 0, 1),                                   \* 1, true
    MkWord(0, 0, 2),                                   \* 2, a bad boolean
    MkWord(0, 0, 32),                                  \* 0x20
    MkWord(0, 0, 64),                                  \* 0x40
    [i \in 1..32 |-> IF i >= 25 THEN 255 ELSE 0],      \* 0xffff_ffff_ffff_ffff
    MkWord(97, 0, 1)                                   \* "a", 30 zero bytes, 0x01
>>

\* The byte at index i (0-based) of the array underlying the input.
MemByte(i) == Vocab[input[(i \div 32) + 1]][(i % 32) + 1]

\* A slice of the input's array: offset of its first byte and its length.
\* Every slice's capacity reaches to the end of the array.
Sl(off, len) == [off |-> off, len |-> len]

Cap(s) == inCap - s.off

SliceBytes(s) == [i \in 1..s.len |-> MemByte(s.off + i - 1)]

\* Go's s[lo:hi]: panics unless 0 <= lo <= hi <= cap(s).
GoSlice(s, lo, hi) ==
    IF lo < 0 \/ hi < lo \/ hi > Cap(s)
    THEN [st |-> "panic", s |-> Sl(0, 0)]
    ELSE [st |-> "ok", s |-> Sl(s.off + lo, hi - lo)]

\* Go's s[i]: panics unless 0 <= i < len(s).
GoIndex(s, i) ==
    IF i < 0 \/ i >= s.len
    THEN [st |-> "panic", b |-> 0]
    ELSE [st |-> "ok", b |-> MemByte(s.off + i)]

\* The number of bits of a byte.
ByteBits(x) == IF x = 0 THEN 0 ELSE CHOOSE n \in 1..8 : 2^(n-1) <= x /\ x < 2^n

\* big.Int.BitLen of the big-endian bytes b.
BitLen(b) ==
    LET nz == {i \in 1..Len(b) : b[i] /= 0}
    IN IF nz = {} THEN 0
       ELSE LET k == CHOOSE i \in nz : \A j \in nz : i <= j
            IN 8 * (Len(b) - k) + ByteBits(b[k])

\* The value of the big-endian bytes b, when it has at most 24 bits.
SmallValue(b) ==
    LET n == Len(b)
        at(i) == IF i >= 1 THEN b[i] ELSE 0
    IN at(n - 2) * 65536 + at(n - 1) * 256 + at(n)

\* Whether the value of the big-endian bytes b exceeds n, for 0 <= n < 2^24.
ValueGt(b, n) == BitLen(b) > 24 \/ SmallValue(b) > n

allZeros(b) == \A i \in 1..Len(b) : b[i] = 0

\* ------------------------------------------------------------------------
\* Integers of any width: a sign and the big-endian bytes of the magnitude,
\* without leading zeros
\* ------------------------------------------------------------------------
RECURSIVE Strip(_)
Strip(b) == IF Len(b) > 0 /\ b[1] = 0 THEN Strip(Tail(b)) ELSE b

Invert(b) == [i \in 1..Len(b) |-> 255 - b[i]]

RECURSIVE AddOne(_)
\* b + 1 modulo 256^Len(b).
AddOne(b) ==
    IF Len(b) = 0 THEN b
    ELSE LET n == Len(b)
         IN IF b[n] < 255 THEN [b EXCEPT ![n] = b[n] + 1]
            ELSE Append(AddOne(SubSeq(b, 1, n - 1)), 0)

IntVal(neg, mag) == [neg |-> neg, mag |-> mag]

\* The integer of the n-byte two's-complement bytes b.
Signed(b) ==
    IF Len(b) > 0 /\ b[1] >= 128
    THEN IntVal(TRUE, Strip(AddOne(Invert(b))))
    ELSE IntVal(FALSE, Strip(b))

\* ------------------------------------------------------------------------
\* abi/decode.go
\* ------------------------------------------------------------------------
NoVal == "none"

Ok(val, tail, o) == [st |-> "ok", val |-> val, tail |-> tail, oob |-> o]
Fail(st, o) == [st |-> st, val |-> NoVal, tail |-> Sl(0, 0), oob |-> o]

readSlice(in, start, length) ==
    LET end0 == in.len
        start1 == IF start < 0 THEN end0 + start ELSE start
        end1 == IF length < 0 THEN end0 + length
                ELSE IF length > 0 THEN start1 + length
                ELSE end0
    IN IF in.len < end1 THEN [st |-> "err", s |-> Sl(0, 0)]
       ELSE GoSlice(in, start1, end1)

\* readLength once its word w is read: the checks on the length.
lengthOf(d, w, b) ==
    IF w.st /= "ok" THEN [st |-> w.st, n |-> 0]
    ELSE IF BitLen(b) > 63 THEN [st |-> "err", n |-> 0]
    ELSE IF ValueGt(b, d.len) THEN [st |-> "err", n |-> 0]
    ELSE [st |-> "ok", n |-> SmallValue(b)]

wordBytes(w) == IF w.st = "ok" THEN SliceBytes(w.s) ELSE <<>>

readLengthAt(d, w) == lengthOf(d, w, wordBytes(w))

readLength(d) == readLengthAt(d, readSlice(d, 0, 32))

\* readOffset once data[0:32], w, is taken: the checks on the offset. o is
\* whether the word lies beyond the end of the input.
offsetOf(len, w, b, o) ==
    IF w.st /= "ok" THEN [st |-> "panic", off |-> 0, oob |-> FALSE]
    ELSE IF BitLen(b) > 63 THEN [st |-> "err", off |-> 0, oob |-> o]
    ELSE IF ValueGt(b, len) THEN [st |-> "err", off |-> 0, oob |-> o]
    ELSE [st |-> "ok", off |-> SmallValue(b), oob |-> o]

readOffsetAt(len, w) == offsetOf(len, w, wordBytes(w), w.s.off + 32 > inLen)

readOffset(d, len) == readOffsetAt(len, GoSlice(d, 0, 32))

boolOf(x) ==
    IF x.st /= "ok" THEN [st |-> "panic", val |-> FALSE]
    ELSE CASE x.b = 0 -> [st |-> "ok", val |-> FALSE]
           [] x.b = 1 -> [st |-> "ok", val |-> TRUE]
           [] OTHER -> [st |-> "err", val |-> FALSE]

decodeBool(d) == boolOf(GoIndex(d, 31))

\* The last n bytes of b.
LastBytes(b, n) == SubSeq(b, Len(b) - n + 1, Len(b))

readInteger(t, b) ==
    IF nativeBytes(t) < 32
    THEN IF t.kind = "uint" THEN IntVal(FALSE, Strip(LastBytes(b, nativeBytes(t))))
         ELSE Signed(LastBytes(b, nativeBytes(t)))
    ELSE IF t.kind = "uint" THEN IntVal(FALSE, Strip(b))
         ELSE IF BitLen(b) > 255 THEN IntVal(TRUE, Strip(AddOne(Invert(b))))
         ELSE IntVal(FALSE, Strip(b))

readAddr(b) ==
    IF Len(b) /= 32 THEN [st |-> "err", val |-> <<>>]
    ELSE [st |-> "ok", val |-> SubSeq(b, 13, 32)]

readFixedBytes(t, word) == [st |-> "ok", val |-> SubSeq(word, 1, t.size)]

readFunctionType(t, word) ==
    IF ~allZeros(SubSeq(word, 25, 32)) THEN [st |-> "err", val |-> <<>>]
    ELSE [st |-> "ok", val |-> SubSeq(word, 1, 24)]

\* The kinds decoded from one 32-byte word.
WordKinds == {"bool", "int", "uint", "address", "fixedbytes", "function"}

\* The value decode reads from the bytes b of the word slice w.
wordValue(t, w, b) ==
    CASE t.kind = "bool" -> decodeBool(w)
      [] t.kind \in {"int", "uint"} -> [st |-> "ok", val |-> readInteger(t, b)]
      [] t.kind = "address" -> readAddr(b)
      [] t.kind = "fixedbytes" -> readFixedBytes(t, b)
      [] t.kind = "function" -> readFunctionType(t, b)

\* The return of decode for a kind that is neither tuple, slice nor array:
\* first is the slice read for the value, v the value made of it and rest
\* the slice from byte 32 on.
primReturn(first, v, rest) ==
    IF first.st /= "ok" THEN Fail(first.st, FALSE)
    ELSE IF v.st = "panic" THEN Fail("panic", FALSE)
    ELSE IF rest.st /= "ok" THEN Fail(rest.st, FALSE)
    ELSE IF v.st /= "ok" THEN Fail("err", FALSE)
    ELSE Ok(v.val, rest.s, FALSE)

primWord(t, in, w) ==
    primReturn(w, IF w.st = "ok" THEN wordValue(t, w.s, wordBytes(w))
                  ELSE [st |-> "err", val |-> NoVal],
               readSlice(in, 32, 0))

primPayload(in, p) ==
    primReturn(p, [st |-> "ok", val |-> wordBytes(p)], readSlice(in, 32, 0))

\* The second switch of decode and its return. length is what readLength
\* returned.
decodePrim(t, in, length) ==
    CASE t.kind \in WordKinds -> primWord(t, in, readSlice(in, 0, 32))
      [] t.kind \in {"string", "bytes"} -> primPayload(in, readSlice(in, 32, length))
      [] OTHER -> Fail("err", FALSE)

\* strconv.Itoa, for n >= 0.
RECURSIVE Itoa(_)
Itoa(n) ==
    LET digit(d) == <<"0", "1", "2", "3", "4", "5", "6", "7", "8", "9">>[d + 1]
    IN IF n < 10 THEN digit(n) ELSE Itoa(n \div 10) \o digit(n % 10)

RECURSIVE decode(_, _)
RECURSIVE tupleLoop(_, _, _, _, _, _)
RECURSIVE arrayLoop(_, _, _, _, _, _, _)

\* What one pass of a loop yields: the state of the loop after it.
Iter(st, d, r, e, o) == [st |-> st, data |-> d, res |-> r, entry |-> e, oob |-> o]

\* The end of a pass: dv is what decode returned for the element at entry e,
\* nd the cursor after the element.
elemDone(d, e, dv, nd, o) ==
    IF dv.st /= "ok" THEN Iter(dv.st, d, NoVal, e, o \/ dv.oob)
    ELSE IF nd.st /= "ok" THEN Iter("panic", d, NoVal, e, o \/ dv.oob)
    ELSE Iter("ok", nd.s, dv.val, e, o \/ dv.oob)

\* The cursor after an element: data[32:] after a dynamic one, else the tail
\* decode returned.
cursorAfter(dyn, d, dv) ==
    IF dyn THEN GoSlice(d, 32, d.len) ELSE [st |-> "ok", s |-> dv.tail]

elemAt(et, dyn, d, e, dv, o) == elemDone(d, e, dv, cursorAfter(dyn, d, dv), o)

\* The offset is taken from the cursor, not from the origin.
entryOfCursor(dyn, o, d, ro) ==
    IF dyn THEN GoSlice(d, ro.off, d.len) ELSE [st |-> "ok", s |-> d]

\* The element's input: orig[offset:] for a dynamic element, else the cursor.
entryOf(dyn, o, d, ro) ==
    IF dyn THEN GoSlice(o, ro.off, o.len) ELSE [st |-> "ok", s |-> d]

elemEntry(et, dyn, d, ro, e) ==
    IF ro.st /= "ok" THEN Iter(ro.st, d, NoVal, d, ro.oob)
    ELSE IF e.st /= "ok" THEN Iter("panic", d, NoVal, d, ro.oob)
    ELSE elemAt(et, dyn, d, e.s, decode(et, e.s), ro.oob)

elemOffset(et, dyn, o, d, ro) == elemEntry(et, dyn, d, ro, entryOf(dyn, o, d, ro))

\* The part of the loop bodies of decodeTuple and decodeArraySlice that is the
\* same: decode element type et at cursor d of origin o.
elemIter(et, o, d) ==
    elemOffset(et, isDynamicType(et), o, d,
               IF isDynamicType(et) THEN readOffset(d, o.len)
               ELSE [st |-> "ok", off |-> 0, oob |-> FALSE])

\* The name decodeTuple stores element i (0-based) under.
keyOf(arg, i) == IF arg.Name = "" THEN Itoa(i) ELSE arg.Name

\* "dup" is the error "tuple with repeated values".
tupleStore(d, r, name, el) ==
    IF el.st /= "ok" THEN Iter(el.st, d, r, el.entry, el.oob)
    ELSE IF name \in DOMAIN r THEN Iter("dup", el.data, r, el.entry, el.oob)
    ELSE Iter("ok", el.data, r @@ (name :> el.res), el.entry, el.oob)

\* One pass of the loop of decodeTuple: element i (0-based) of tuple type t,
\* with origin o, cursor d and the map r of the elements before it.
tupleIter(t, o, d, i, r) ==
    tupleStore(d, r, keyOf(t.tuple[i + 1], i), elemIter(t.tuple[i + 1].Elem, o, d))

tupleNext(t, o, i, ob, it) ==
    IF it.st /= "ok" THEN Fail(it.st, ob \/ it.oob)
    ELSE tupleLoop(t, o, it.data, i + 1, it.res, ob \/ it.oob)

tupleLoop(t, o, d, i, r, ob) ==
    IF i >= Len(t.tuple) THEN Ok(r, d, ob)
    ELSE tupleNext(t, o, i, ob, tupleIter(t, o, d, i, r))

decodeTuple(t, d) == tupleLoop(t, d, d, 0, <<>>, FALSE)

\* The checks decodeArraySlice makes before its loop.
arrayCheck(d, n) == IF n < 0 \/ 32 * n > d.len THEN "err" ELSE "ok"

arrayStore(d, r, el) ==
    IF el.st /= "ok" THEN Iter(el.st, d, r, el.entry, el.oob)
    ELSE Iter("ok", el.data, Append(r, el.res), el.entry, el.oob)

\* One pass of the loop of decodeArraySlice.
arrayIter(t, o, d, i, r) == arrayStore(d, r, elemIter(t.elem, o, d))

arrayNext(t, o, n, i, ob, it) ==
    IF it.st /= "ok" THEN Fail(it.st, ob \/ it.oob)
    ELSE arrayLoop(t, o, it.data, n, i + 1, it.res, ob \/ it.oob)

arrayLoop(t, o, d, n, i, r, ob) ==
    IF i >= n THEN Ok(r, d, ob)
    ELSE arrayNext(t, o, n, i, ob, arrayIter(t, o, d, i, r))

decodeArraySlice(t, d, n) ==
    IF arrayCheck(d, n) /= "ok" THEN Fail("err", FALSE)
    ELSE arrayLoop(t, d, d, n, 0, <<>>, FALSE)

elemsAt(d, n) == [st |-> d.st, s |-> d.s, n |-> n]

\* What decode does before it decodes the elements of a slice or an array:
\* the slice the elements are in and their number.
elemsOf(t, in, length) ==
    IF t.kind = "slice" THEN elemsAt(readSlice(in, 32, 0), length)
    ELSE [st |-> "ok", s |-> in, n |-> t.size]

decodeElems(t, el) ==
    IF el.st /= "ok" THEN Fail(el.st, FALSE) ELSE decodeArraySlice(t, el.s, el.n)

\* decode after its call of readLength, which returned rl.
decodeKind(t, in, rl) ==
    IF rl.st /= "ok" THEN Fail(rl.st, FALSE)
    ELSE CASE t.kind = "tuple" -> decodeTuple(t, in)
           [] t.kind \in {"slice", "array"} -> decodeElems(t, elemsOf(t, in, rl.n))
           [] OTHER -> decodePrim(t, in, rl.n)

\* The length prefix decode reads for a type with variable input.
lengthFor(t, in) ==
    IF isVariableInput(t) THEN readLength(in) ELSE [st |-> "ok", n |-> 0]

decode(t, in) == decodeKind(t, in, lengthFor(t, in))

\* ------------------------------------------------------------------------
\* Decode(t, input), with the loops of the outermost tuple, slice or array
\* taken one element at a time
\* ------------------------------------------------------------------------
T == Types[typ]

Input == Sl(0, inLen)

NoRet == [st |-> "none", val |-> NoVal, tail |-> Sl(0, 0)]

Ret(r) == [st |-> r.st, val |-> r.val, tail |-> r.tail]

RECURSIVE WordSeqs(_)
\* The sequences of at most n indices of Vocab.
WordSeqs(n) ==
    IF n = 0 THEN {<<>>}
    ELSE LET shorter == WordSeqs(n - 1)
         IN shorter \cup {Append(w, i) : w \in {s \in shorter : Len(s) = n - 1},
                                          i \in 1..Len(Vocab)}

\* The inputs are some words, with the last bytes cut off or left in the
\* capacity of the slice.
\* Decode before a call, for the specifications of the other parts.
DecIdle ==
    /\ typ = 1
    /\ input = <<>>
    /\ inLen = 0
    /\ inCap = 0
    /\ pc = "idle"
    /\ orig = Sl(0, 0)
    /\ data = Sl(0, 0)
    /\ size = 0
    /\ indx = 0
    /\ res = <<>>
    /\ entry = Sl(0, 0)
    /\ ret = NoRet
    /\ oob = FALSE

DecInit ==
    /\ typ \in 1..Len(Types)
    /\ \E w \in WordSeqs(MaxWords), c \in 0..MaxCut :
          /\ c <= 32 * Len(w)
          /\ input = w
          /\ inLen = 32 * Len(w) - c
          /\ inCap \in {32 * Len(w) - c, 32 * Len(w)}
    /\ pc = "call"
    /\ orig = Sl(0, 0)
    /\ data = Sl(0, 0)
    /\ size = 0
    /\ indx = 0
    /\ res = <<>>
    /\ entry = Sl(0, 0)
    /\ ret = NoRet
    /\ oob = FALSE

Return(r) ==
    /\ pc' = "done"
    /\ ret' = Ret(r)
    /\ oob' = (oob \/ r.oob)

\* Decode on a type that is neither tuple, slice nor array.
DecodeValue ==
    /\ pc = "call"
    /\ T.kind \notin {"tuple", "slice", "array"}
    /\ Return(decode(T, Input))
    /\ UNCHANGED <<typ, input, inLen, inCap, orig, data, size, indx, res, entry>>

\* Decode on a tuple: decode up to the loop of decodeTuple.
DecodeTupleEnter ==
    /\ pc = "call"
    /\ T.kind = "tuple"
    /\ pc' = "tuple"
    /\ orig' = Input
    /\ data' = Input
    /\ indx' = 0
    /\ res' = <<>>
    /\ UNCHANGED <<typ, input, inLen, inCap, size, entry, ret, oob>>

\* The effect of one pass of a loop, which yielded it.
LoopStep(it) ==
    /\ entry' = it.entry
    /\ IF it.st = "ok"
       THEN /\ data' = it.data
            /\ res' = it.res
            /\ indx' = indx + 1
            /\ oob' = (oob \/ it.oob)
            /\ UNCHANGED <<pc, ret>>
       ELSE /\ Return(Fail(it.st, it.oob))
            /\ UNCHANGED <<data, res, indx>>

\* One pass of the loop of decodeTuple.
DecodeTupleIter ==
    /\ pc = "tuple"
    /\ indx < Len(T.tuple)
    /\ LoopStep(tupleIter(T, orig, data, indx, res))
    /\ UNCHANGED <<typ, input, inLen, inCap, orig, size>>

\* The return of decodeTuple after its loop.
DecodeTupleReturn ==
    /\ pc = "tuple"
    /\ indx >= Len(T.tuple)
    /\ Return(Ok(res, data, FALSE))
    /\ UNCHANGED <<typ, input, inLen, inCap, orig, data, size, indx, res, entry>>

\* decode up to the loop of decodeArraySlice: rl is what readLength returned
\* and el what elemsOf did.
ArrayEnter(rl, el) ==
    IF rl.st /= "ok" \/ el.st /= "ok" \/ arrayCheck(el.s, el.n) /= "ok"
    THEN /\ Return(Fail(IF rl.st /= "ok" THEN rl.st
                        ELSE IF el.st /= "ok" THEN el.st ELSE "err", FALSE))
         /\ UNCHANGED <<orig, data, size, indx, res>>
    ELSE /\ pc' = "array"
         /\ orig' = el.s
         /\ data' = el.s
         /\ size' = el.n
         /\ indx' = 0
         /\ res' = <<>>
         /\ UNCHANGED <<ret, oob>>

\* Decode on a slice or an array: decode up to the loop of decodeArraySlice.
DecodeArrayEnter ==
    /\ pc = "call"
    /\ T.kind \in {"slice", "array"}
    /\ ArrayEnter(lengthFor(T, Input),
                  IF lengthFor(T, Input).st = "ok"
                  THEN elemsOf(T, Input, lengthFor(T, Input).n)
                  ELSE [st |-> "err", s |-> Sl(0, 0), n |-> 0])
    /\ UNCHANGED <<typ, input, inLen, inCap, entry>>

\* One pass of the loop of decodeArraySlice.
DecodeArrayIter ==
    /\ pc = "array"
    /\ indx < size
    /\ LoopStep(arrayIter(T, orig, data, indx, res))
    /\ UNCHANGED <<typ, input, inLen, inCap, orig, size>>

\* The return of decodeArraySlice after its loop.
DecodeArrayReturn ==
    /\ pc = "array"
    /\ indx >= size
    /\ Return(Ok(res, data, FALSE))
    /\ UNCHANGED <<typ, input, inLen, inCap, orig, data, size, indx, res, entry>>

\* ------------------------------------------------------------------------
\* abi/abi.go: NewABI and ABI.UnmarshalJSON
\* ------------------------------------------------------------------------
\* arguments.Type: the tuple type of a list of arguments.
argumentsType(args) ==
    TupleOf([i \in 1..Len(args) |->
                [Name |-> args[i].Name, Elem |-> args[i].Type, Indexed |-> args[i].Indexed]])

Argument(name, t, indexed) == [Name |-> name, Type |-> t, Indexed |-> indexed]

\* A *Method or *Event: nil, or the object.
Nil == <<>>
Ptr(x) == <<x>>

NewMethod(name, c, inputs, outputs) ==
    [Name |-> name, Const |-> c, Inputs |-> inputs, Outputs |-> outputs, id |-> <<>>]

NewEventObject(name, anonymous, inputs) ==
    [Name |-> name, Anonymous |-> anonymous, Inputs |-> inputs, id |-> <<>>]

RECURSIVE overloadLoop(_, _, _, _)
\* The loop of overloadedMethodName and overloadedEventName over the keys
\* taken: for idx := 0; ok; idx++.
overloadLoop(keys, rawName, name, idx) ==
    IF name \notin keys THEN name
    ELSE overloadLoop(keys, rawName, rawName \o Itoa(idx), idx + 1)

\* The suffixes start at 1: send, send1, send2.
overloadedMethodNameFromOne(a, rawName) ==
    overloadLoop(DOMAIN a.Methods, rawName, rawName, 1)

overloadedMethodName(a, rawName) == overloadLoop(DOMAIN a.Methods, rawName, rawName, 0)

overloadedEventName(a, rawName) == overloadLoop(DOMAIN a.Events, rawName, rawName, 0)

\* What one pass of the loop of UnmarshalJSON yields.
Parsed(a, err) == [abi |-> a, err |-> err]

\* A second constructor replaces the first one.
parseConstructorReplacing(a, field) ==
    Parsed([a EXCEPT !.Constructor =
                Ptr(NewMethod("", FALSE, argumentsType(field.Inputs), NoType))],
           FALSE)

\* case "constructor" of the switch of UnmarshalJSON.
parseConstructor(a, field) ==
    IF a.Constructor /= Nil THEN Parsed(a, TRUE)
    ELSE Parsed([a EXCEPT !.Constructor =
                    Ptr(NewMethod("", FALSE, argumentsType(field.Inputs), NoType))],
                FALSE)

\* The body of the loop of UnmarshalJSON: the switch on the field's type.
parseField(a, field) ==
    CASE field.Type = "constructor" -> parseConstructor(a, field)
      [] field.Type \in {"function", ""} ->
            Parsed([a EXCEPT !.Methods =
                        (overloadedMethodName(a, field.Name) :>
                            NewMethod(field.Name,
                                      field.Constant
                                        \/ field.StateMutability \in {"view", "pure"},
                                      argumentsType(field.Inputs),
                                      argumentsType(field.Outputs))) @@ @],
                   FALSE)
      [] field.Type = "event" ->
            Parsed([a EXCEPT !.Events =
                        (overloadedEventName(a, field.Name) :>
                            NewEventObject(field.Name, field.Anonymous,
                                           argumentsType(field.Inputs))) @@ @],
                   FALSE)
      [] field.Type \in {"error", "fallback", "receive"} -> Parsed(a, FALSE)
      [] OTHER -> Parsed(a, TRUE)

\* What NewABIFromReader returns after UnmarshalJSON: the document, or nil
\* with the error.
newABIResult(a, err) == IF err THEN Nil ELSE Ptr(a)

Field(type, name, constant, anonymous, mutability, inputs) ==
    [Type |-> type, Name |-> name, Constant |-> constant, Anonymous |-> anonymous,
     StateMutability |-> mutability, Inputs |-> inputs, Outputs |-> <<>>]

\* The argument lists of the fields.
ArgLists == {<<>>, <<Argument("to", TAddress, TRUE), Argument("", TUint256, FALSE)>>}

\* The names of the functions and events.
FieldNames == {"send", "send0"}

\* The fields a descriptor is made of.
Fields ==
    {Field("constructor", "", FALSE, FALSE, "", i) : i \in ArgLists}
    \cup {Field(t, n, c, FALSE, m, <<>>) :
            t \in {"function", ""}, n \in FieldNames, c \in BOOLEAN, m \in {"", "view"}}
    \cup {Field("event", n, FALSE, a, "", <<>>) : n \in FieldNames, a \in BOOLEAN}
    \cup {Field(t, "", FALSE, FALSE, "", <<>>) :
            t \in {"error", "fallback", "receive", "modifier"}}

NoField == Field("none", "", FALSE, FALSE, "", <<>>)

\* NewABI before a call, for the specifications of the other parts.
AbiIdle ==
    /\ abi = [Constructor |-> Nil, Methods |-> <<>>, Events |-> <<>>]
    /\ ppc = "idle"
    /\ perr = FALSE
    /\ nfields = 0
    /\ last = NoField
    /\ counts = [function |-> 0, event |-> 0]
    /\ out = Nil

\* NewABIFromReader up to the loop of UnmarshalJSON: new(ABI) and the two
\* empty maps.
AbiInit ==
    /\ abi = [Constructor |-> Nil, Methods |-> <<>>, Events |-> <<>>]
    /\ ppc = "fields"
    /\ perr = FALSE
    /\ nfields = 0
    /\ last = NoField
    /\ counts = [function |-> 0, event |-> 0]
    /\ out = Nil

\* The effect of one pass of the loop, which yielded p, on field f.
FieldStep(f, p) ==
    /\ abi' = p.abi
    /\ perr' = p.err
    /\ ppc' = IF p.err THEN "return" ELSE "fields"
    /\ nfields' = nfields + 1
    /\ last' = f
    /\ counts' = IF f.Type \in {"function", ""} /\ ~p.err
                 THEN [counts EXCEPT !.function = @ + 1]
                 ELSE IF f.Type = "event" /\ ~p.err
                 THEN [counts EXCEPT !.event = @ + 1]
                 ELSE counts
    /\ UNCHANGED out

\* One pass of the loop of UnmarshalJSON, on the next field of the descriptor.
ParseField ==
    /\ ppc = "fields"
    /\ nfields < MaxFields
    /\ \E f \in Fields : FieldStep(f, parseField(abi, f))

\* The end of the loop of UnmarshalJSON: the descriptor has no more fields.
ParseEnd ==
    /\ ppc = "fields"
    /\ ppc' = "return"
    /\ UNCHANGED <<abi, perr, nfields, last, counts, out>>

\* The return of NewABIFromReader.
NewABIReturn ==
    /\ ppc = "return"
    /\ ppc' = "done"
    /\ out' = newABIResult(abi, perr)
    /\ UNCHANGED <<abi, perr, nfields, last, counts>>

\* ------------------------------------------------------------------------
\* Objects: Types, Methods and Events behind pointers
\* ------------------------------------------------------------------------
\* An address is an index of heap; 0 is nil.
TypeNode(kind, sz, elem, raw, tuple, t) ==
    [tag |-> "Type", kind |-> kind, size |-> sz, elem |-> elem, raw |-> raw,
     tuple |-> tuple, t |-> t]

\* A []*TupleElem: nil, or the addresses of its elements.
NilElems == [nil |-> TRUE, elems |-> <<>>]
Elems(refs) == [nil |-> FALSE, elems |-> refs]

ElemNode(name, elem, indexed) ==
    [tag |-> "TupleElem", Name |-> name, Elem |-> elem, Indexed |-> indexed]

\* A []byte: the address of its array and its length.
NilBytes == [ptr |-> 0, len |-> 0]

MethodNode(name, c, inputs, outputs, id) ==
    [tag |-> "Method", Name |-> name, Const |-> c, Inputs |-> inputs,
     Outputs |-> outputs, id |-> id]

\* web3.Hash, an array of 32 bytes.
ZeroHash == [i \in 1..32 |-> 0]

EventNode(name, anonymous, inputs, id) ==
    [tag |-> "Event", Name |-> name, Anonymous |-> anonymous, Inputs |-> inputs,
     id |-> id]

BytesNode(b) == [tag |-> "bytes", b |-> b]

\* new(T) or &T{...}: the heap with one more object, and its address.
Alloc(h, obj) == [heap |-> Append(h, obj), ref |-> Len(h) + 1]

RECURSIVE Build(_, _)
RECURSIVE buildElems(_, _, _, _)

buildElem(h, elems, i, refs, el) ==
    buildElems(el.heap, elems, i + 1, Append(refs, el.ref))

buildElemAt(elems, i, refs, b) ==
    buildElem(b.heap, elems, i, refs,
              Alloc(b.heap, ElemNode(elems[i].Name, b.ref, elems[i].Indexed)))

\* The TupleElems of a tuple type, from element i on.
buildElems(h, elems, i, refs) ==
    IF i > Len(elems) THEN [heap |-> h, refs |-> refs]
    ELSE buildElemAt(elems, i, refs, Build(h, elems[i].Elem))

buildNode(tv, elem, tup) ==
    Alloc(tup.heap,
          TypeNode(tv.kind, tv.size, elem, tv.raw,
                   IF tv.kind = "tuple" THEN Elems(tup.refs) ELSE NilElems,
                   IF tv.kind = "tuple" THEN "" ELSE tv.raw))

buildTuple(tv, e) == buildNode(tv, e.ref, buildElems(e.heap, tv.tuple, 1, <<>>))

\* The Type the parsers make for the type value tv, on heap h.
Build(h, tv) ==
    IF tv.kind = "none" THEN [heap |-> h, ref |-> 0]
    ELSE buildTuple(tv, Build(h, tv.elem))

RECURSIVE joinRaw(_, _, _)
\* strings.Join of the raw of the tuple elements from i on.
joinRaw(h, elems, i) ==
    IF i > Len(elems) THEN ""
    ELSE h[h[elems[i]].Elem].raw
         \o (IF i < Len(elems) THEN "," ELSE "")
         \o joinRaw(h, elems, i + 1)

buildSignature(h, name, ty) == name \o "(" \o joinRaw(h, h[ty].tuple.elems, 1) \o ")"

\* Method.Sig and Event.Sig.
Sig(h, obj) == buildSignature(h, h[obj].Name, h[obj].Inputs)

\* sha3.NewLegacyKeccak256 on the signatures of the model.
KeccakTable ==
    [sig \in {"abc()", "transfer(address,uint256)", "Transfer()",
              "Transfer(address,address,uint256)"} |->
        CASE sig = "abc()" ->
                <<146, 39, 121, 51, 145, 81, 91, 114, 192, 3, 232, 213, 171, 106, 170, 158,
                  202, 163, 73, 201, 19, 181, 205, 247, 54, 90, 77, 249, 215, 124, 86, 56>>
          [] sig = "transfer(address,uint256)" ->
                <<169, 5, 156, 187, 42, 176, 158, 178, 25, 88, 63, 74, 89, 165, 208, 98,
                  58, 222, 52, 109, 150, 43, 205, 78, 70, 177, 29, 160, 71, 201, 4, 155>>
          [] sig = "Transfer()" ->
                <<64, 109, 173, 227, 31, 122, 228, 181, 219, 194, 118, 37, 140, 40, 221, 229,
                  174, 109, 92, 39, 115, 197, 116, 88, 2, 196, 147, 162, 54, 14, 85, 224>>
          [] sig = "Transfer(address,address,uint256)" ->
                <<221, 242, 82, 173, 27, 226, 200, 155, 105, 194, 176, 104, 252, 55, 141, 170,
                  149, 43, 167, 241, 99, 196, 161, 22, 40, 245, 90, 77, 245, 35, 179, 239>>]

\* The digest of any other string (it is that of the empty string).
OtherDigest ==
    <<197, 210, 70, 1, 134, 247, 35, 60, 146, 126, 125, 178, 220, 199, 3, 192,
      229, 0, 182, 83, 202, 130, 39, 59, 123, 250, 216, 4, 93, 133, 164, 112>>

Keccak(str) == IF str \in DOMAIN KeccakTable THEN KeccakTable[str] ELSE OtherDigest

\* A hasher is the string written to it since its last Reset.
NewHasher == ""

\* releaseKeccak without its Reset.
releaseKeccakDirty(p, k) == Append(p, k)

\* releaseKeccak: k.Reset() and keccakPool.Put(k).
releaseKeccak(p, k) == Append(p, NewHasher)

\* keccakPool.Get: choice 0 is a new hasher, choice i > 0 the i-th of the pool.
acquireKeccak(p, i) == IF i = 0 THEN NewHasher ELSE p[i]

\* The pool without the hasher Get returned.
poolAfterGet(p, i) ==
    IF i = 0 THEN p ELSE SubSeq(p, 1, i - 1) \o SubSeq(p, i + 1, Len(p))

\* k.Write(data) and k.Sum(nil) on a hasher in state k.
hashSum(k, str) == Keccak(k \o str)

\* What a call yields: the heap and the pool after it and what it returned.
Called(h, p, val) == [heap |-> h, pool |-> p, val |-> val]

\* The id is cached whole: m.id = k.Sum(nil).
methodCacheWhole(h, m, al) == [al.heap EXCEPT ![m].id = [ptr |-> al.ref, len |-> 32]]

\* m.id = k.Sum(nil)[:4], the digest being in the new array al.ref.
methodCache(h, m, al) == [al.heap EXCEPT ![m].id = [ptr |-> al.ref, len |-> 4]]

methodHashed(h, p, m, k, nh) == Called(nh, releaseKeccak(p, k), nh[m].id)

\* Method.ID after its check of the cached id; i is the hasher Get returns.
methodCompute(h, p, m, i) ==
    methodHashed(h, poolAfterGet(p, i), m, acquireKeccak(p, i) \o Sig(h, m),
                 methodCache(h, m,
                             Alloc(h, BytesNode(hashSum(acquireKeccak(p, i), Sig(h, m))))))

\* Method.ID.
MethodID(h, p, m, i) ==
    IF h[m].id.len > 0 THEN Called(h, p, h[m].id) ELSE methodCompute(h, p, m, i)

\* binary.BigEndian.Uint64(id[:]) > 0: one of the first 8 bytes is not 0.
Uint64Positive(id) == ~allZeros(SubSeq(id, 1, 8))

eventHashed(h, p, e, k, dst) ==
    Called([h EXCEPT ![e].id = dst], releaseKeccak(p, k), dst)

eventCompute(h, p, e, i) ==
    eventHashed(h, poolAfterGet(p, i), e, acquireKeccak(p, i) \o Sig(h, e),
                hashSum(acquireKeccak(p, i), Sig(h, e)))

\* Event.ID.
EventID(h, p, e, i) ==
    IF Uint64Positive(h[e].id) THEN Called(h, p, h[e].id) ELSE eventCompute(h, p, e, i)

\* The bytes of a []byte.
BytesOf(h, sl) == IF sl.ptr = 0 THEN <<>> ELSE SubSeq(h[sl.ptr].b, 1, sl.len)

matchID(log, c) == Called(c.heap, c.pool, log.Topics[1] = c.val)

\* Event.Match.
EventMatch(h, p, e, log, i) ==
    IF Len(log.Topics) = 0 THEN Called(h, p, FALSE)
    ELSE matchID(log, EventID(h, p, e, i))

\* Event.ParseLog up to its call of e.Inputs.ParseLog: the error, or the
\* log handed on.
parseMatched(c) == Called(c.heap, c.pool, IF c.val THEN "parse" ELSE "nomatch")

EventParseLog(h, p, e, log, i) == parseMatched(EventMatch(h, p, e, log, i))

\* ------------------------------------------------------------------------
\* abi/clone.go
\* ------------------------------------------------------------------------
RECURSIVE TypeClone(_, _)
RECURSIVE cloneElems(_, _, _, _)

\* &TupleElem{Elem: v.Elem.Clone(), Indexed: v.Indexed}, c being the clone
\* of v.Elem.
cloneElem(v, c) == Alloc(c.heap, ElemNode("", c.ref, v.Indexed))

cloneElemNext(tup, k, refs, el) == cloneElems(el.heap, tup, k + 1, Append(refs, el.ref))

\* The loop of Type.Clone over t.tuple, from element k on.
cloneElems(h, tup, k, refs) ==
    IF k > Len(tup) THEN [heap |-> h, refs |-> refs]
    ELSE cloneElemNext(tup, k, refs, cloneElem(h[tup[k]], TypeClone(h, h[tup[k]].Elem)))

cloneItem(node, elem, tc) ==
    Alloc(tc.heap,
          TypeNode(node.kind, node.size, elem, node.raw,
                   IF node.tuple.nil THEN NilElems ELSE Elems(tc.refs), node.t))

cloneTuple(node, ec) ==
    cloneItem(node, ec.ref,
              IF node.tuple.nil THEN [heap |-> ec.heap, refs |-> <<>>]
              ELSE cloneElems(ec.heap, node.tuple.elems, 1, <<>>))

\* Type.Clone.
TypeClone(h, t) ==
    IF t = 0 THEN [heap |-> h, ref |-> 0]
    ELSE cloneTuple(h[t], TypeClone(h, h[t].elem))

eventItem(ev, ic) ==
    Alloc(ic.heap, EventNode(ev.Name, ev.Anonymous, ic.ref, ev.id))

\* Event.Clone.
EventClone(h, e) ==
    IF e = 0 THEN [heap |-> h, ref |-> 0]
    ELSE eventItem(h[e], TypeClone(h, h[e].Inputs))

methodItem(m, ic, oc) ==
    Alloc(oc.heap, MethodNode(m.Name, m.Const, ic.ref, oc.ref, m.id))

methodOutputs(h, m, ic) == methodItem(h[m], ic, TypeClone(ic.heap, h[m].Outputs))

\* Method.Clone.
MethodClone(h, m) ==
    IF m = 0 THEN [heap |-> h, ref |-> 0]
    ELSE methodOutputs(h, m, TypeClone(h, h[m].Inputs))

\* ------------------------------------------------------------------------
\* Calls on one Method and one Event, one at a time
\* ------------------------------------------------------------------------
\* The arguments of the Methods and Events.
NoArgs == <<>>
TransferArgs == <<Argument("to", TAddress, FALSE), Argument("value", TUint256, FALSE)>>
LogArgs == <<Argument("from", TAddress, TRUE), Argument("to", TAddress, TRUE),
             Argument("value", TUint256, FALSE)>>

\* The Methods: their Name and the arguments of their Inputs and Outputs.
MethodFixtures ==
    {[Name |-> "abc", Const |-> FALSE, Inputs |-> NoArgs, Outputs |-> NoArgs],
     [Name |-> "transfer", Const |-> FALSE, Inputs |-> TransferArgs,
      Outputs |-> <<Argument("", TBool, FALSE)>>]}

\* The Events.
EventFixtures ==
    {[Name |-> "Transfer", Anonymous |-> a, Inputs |-> i] :
        a \in BOOLEAN, i \in {NoArgs, LogArgs}}

\* The heap with the Method and the Event of a parsed descriptor.
withEvent(ev, mo, ei) ==
    Alloc(ei.heap, EventNode(ev.Name, ev.Anonymous, ei.ref, ZeroHash))

withMethod(m, ev, mi, mo) ==
    withEvent(ev, mo,
              Build(Append(mo.heap, MethodNode(m.Name, m.Const, mi.ref, mo.ref, NilBytes)),
                    argumentsType(ev.Inputs)))

withInputs(m, ev, mi) == withMethod(m, ev, mi, Build(mi.heap, argumentsType(m.Outputs)))

Parse(m, ev) == withInputs(m, ev, Build(<<>>, argumentsType(m.Inputs)))

\* The address of the Method on a heap made by Parse.
MethodOf(h) == CHOOSE a \in 1..Len(h) : h[a].tag = "Method"

NoCall == [op |-> "none", obj |-> 0, val |-> 0, log |-> [Topics |-> <<>>]]
Call(op, obj, val, log) == [op |-> op, obj |-> obj, val |-> val, log |-> log]

NoLog == [Topics |-> <<>>]

ObjIdle ==
    /\ heap = <<>>
    /\ method = 0
    /\ event = 0
    /\ pool = <<>>
    /\ ncalls = 0
    /\ called = NoCall

objectsAt(al) ==
    /\ heap = al.heap
    /\ event = al.ref
    /\ method = MethodOf(al.heap)

ObjInit ==
    /\ \E m \in MethodFixtures, ev \in EventFixtures : objectsAt(Parse(m, ev))
    /\ pool = <<>>
    /\ ncalls = 0
    /\ called = NoCall

\* The effect of a call that yielded c.
CallStep(op, obj, log, c) ==
    /\ heap' = c.heap
    /\ pool' = c.pool
    /\ called' = Call(op, obj, c.val, log)
    /\ ncalls' = ncalls + 1
    /\ UNCHANGED <<method, event>>

\* The hashers keccakPool.Get may return.
Gets == 0..Len(pool)

\* The logs: at most MaxTopics topics, each the id of one of the Events.
RECURSIVE TopicSeqs(_)
TopicSeqs(n) ==
    IF n = 0 THEN {<<>>}
    ELSE TopicSeqs(n - 1)
         \cup {Append(w, x) : w \in {q \in TopicSeqs(n - 1) : Len(q) = n - 1},
                              x \in {KeccakTable["Transfer()"],
                                     KeccakTable["Transfer(address,address,uint256)"]}}

Logs == {[Topics |-> w] : w \in TopicSeqs(MaxTopics)}

CallMethodID ==
    /\ ncalls < MaxCalls
    /\ \E i \in Gets : CallStep("Method.ID", method, NoLog, MethodID(heap, pool, method, i))

CallEventID ==
    /\ ncalls < MaxCalls
    /\ \E i \in Gets : CallStep("Event.ID", event, NoLog, EventID(heap, pool, event, i))

CallEventMatch ==
    /\ ncalls < MaxCalls
    /\ \E i \in Gets, log \in Logs :
          CallStep("Event.Match", event, log, EventMatch(heap, pool, event, log, i))

CallEventParseLog ==
    /\ ncalls < MaxCalls
    /\ \E i \in Gets, log \in Logs :
          CallStep("Event.ParseLog", event, log, EventParseLog(heap, pool, event, log, i))

\* The effect of a Clone that yielded al.
CloneStep(op, obj, al) == CallStep(op, obj, NoLog, Called(al.heap, pool, al.ref))

CallTypeClone ==
    /\ ncalls < MaxCalls
    /\ \E t \in {heap[method].Inputs, heap[method].Outputs, heap[event].Inputs} :
          CloneStep("Type.Clone", t, TypeClone(heap, t))

CallMethodClone ==
    /\ ncalls < MaxCalls
    /\ CloneStep("Method.Clone", method, MethodClone(heap, method))

CallEventClone ==
    /\ ncalls < MaxCalls
    /\ CloneStep("Event.Clone", event, EventClone(heap, event))

\* ------------------------------------------------------------------------
\* ID called by goroutines that share the Method and the Event
\* ------------------------------------------------------------------------
\* The code takes no lock and uses no atomic: the goroutines' reads and
\* writes of m.id and e.id interleave, a machine word at a time. e.id is an
\* array of 4 words; m.id is a slice header whose pointer and length are
\* words of their own.
Goroutines == 1..NGoroutines

Waiting == [pc |-> "idle", op |-> "none", dst |-> <<>>, ref |-> 0, i |-> 0,
            pend |-> {}, val |-> <<>>]

NoStores == [method |-> 0, event |-> 0]

GoIdle == gor = [g \in Goroutines |-> Waiting] /\ stores = NoStores

WordsOfHash == 4

\* Word i of a web3.Hash, and the hash with its word i set to w.
HashWord(id, i) == SubSeq(id, 8 * (i - 1) + 1, 8 * i)
WithHashWord(id, i, w) == SubSeq(id, 1, 8 * (i - 1)) \o w \o SubSeq(id, 8 * i + 1, 32)

\* The goroutine's next step once it has moved word i of WordsOfHash.
AfterWord(r, i, next) ==
    IF i < WordsOfHash THEN [r EXCEPT !.i = i + 1]
    ELSE [r EXCEPT !.pc = next, !.i = 1]

\* Event.ID: binary.BigEndian.Uint64(e.id[:]) > 0 reads the first word.
EventCheck(g) ==
    /\ gor[g].pc \in {"idle", "done"}
    /\ ncalls < MaxCalls
    /\ ncalls' = ncalls + 1
    /\ gor' = [gor EXCEPT ![g] =
                 [Waiting EXCEPT !.op = "Event.ID", !.i = 1, !.val = ZeroHash,
                                 !.pc = IF Uint64Positive(heap[event].id)
                                        THEN "e_load" ELSE "e_hash"]]
    /\ UNCHANGED <<heap, method, event, pool, called, stores>>

\* Event.ID: acquireKeccak, Write, Sum and releaseKeccak; i is the hasher
\* the pool returns.
EventHash(g) ==
    /\ gor[g].pc = "e_hash"
    /\ \E i \in Gets :
          /\ gor' = [gor EXCEPT ![g].pc = "e_copy",
                                ![g].dst = hashSum(acquireKeccak(pool, i), Sig(heap, event))]
          /\ pool' = releaseKeccak(poolAfterGet(pool, i),
                                   acquireKeccak(pool, i) \o Sig(heap, event))
    /\ UNCHANGED <<heap, method, event, ncalls, called, stores>>

\* Event.ID: copy(e.id[:], dst) moves one more word.
EventCopy(g) ==
    /\ gor[g].pc = "e_copy"
    /\ heap' = [heap EXCEPT ![event].id =
                   WithHashWord(heap[event].id, gor[g].i, HashWord(gor[g].dst, gor[g].i))]
    /\ gor' = [gor EXCEPT ![g] = AfterWord(gor[g], gor[g].i, "e_load")]
    /\ stores' = IF gor[g].i = WordsOfHash
                 THEN [stores EXCEPT !.event = stores.event + 1] ELSE stores
    /\ UNCHANGED <<method, event, pool, ncalls, called>>

\* Event.ID: return e.id reads one more word; the call returns with the
\* last.
EventLoad(g) ==
    /\ gor[g].pc = "e_load"
    /\ gor' = [gor EXCEPT ![g] =
                 AfterWord([gor[g] EXCEPT !.val =
                               WithHashWord(gor[g].val, gor[g].i,
                                            HashWord(heap[event].id, gor[g].i))],
                           gor[g].i, "done")]
    /\ UNCHANGED <<heap, method, event, pool, ncalls, called, stores>>

\* The words of a slice header the code reads and writes.
HeaderWords == {"ptr", "len"}

\* Method.ID: len(m.id) > 0 reads the length.
MethodCheck(g) ==
    /\ gor[g].pc \in {"idle", "done"}
    /\ ncalls < MaxCalls
    /\ ncalls' = ncalls + 1
    /\ gor' = [gor EXCEPT ![g] =
                 [Waiting EXCEPT !.op = "Method.ID", !.pend = HeaderWords,
                                 !.val = NilBytes,
                                 !.pc = IF heap[method].id.len > 0
                                        THEN "m_load" ELSE "m_hash"]]
    /\ UNCHANGED <<heap, method, event, pool, called, stores>>

\* The goroutine with the array k.Sum(nil) allocated.
Summed(r, al) == [r EXCEPT !.pc = "m_store", !.ref = al.ref]

\* Method.ID: acquireKeccak, Write, Sum and releaseKeccak.
MethodHash(g) ==
    /\ gor[g].pc = "m_hash"
    /\ \E i \in Gets :
          /\ gor' = [gor EXCEPT ![g] =
                       Summed(gor[g], Alloc(heap, BytesNode(hashSum(acquireKeccak(pool, i),
                                                                    Sig(heap, method)))))]
          /\ heap' = Alloc(heap, BytesNode(hashSum(acquireKeccak(pool, i),
                                                   Sig(heap, method)))).heap
          /\ pool' = releaseKeccak(poolAfterGet(pool, i),
                                   acquireKeccak(pool, i) \o Sig(heap, method))
    /\ UNCHANGED <<method, event, ncalls, called, stores>>

\* The slice header with word f of k.Sum(nil)[:4] written.
WithHeaderWord(id, f, ref) ==
    IF f = "ptr" THEN [id EXCEPT !.ptr = ref] ELSE [id EXCEPT !.len = 4]

\* The goroutine's next step once it has moved word f of the header.
AfterHeaderWord(r, f, next) ==
    IF r.pend = {f} THEN [r EXCEPT !.pc = next, !.pend = HeaderWords]
    ELSE [r EXCEPT !.pend = r.pend \ {f}]

\* Method.ID: m.id = k.Sum(nil)[:4] writes one more word of the header, in
\* the order the build chose.
MethodStore(g) ==
    /\ gor[g].pc = "m_store"
    /\ \E f \in gor[g].pend :
          /\ heap' = [heap EXCEPT ![method].id =
                         WithHeaderWord(heap[method].id, f, gor[g].ref)]
          /\ gor' = [gor EXCEPT ![g] = AfterHeaderWord(gor[g], f, "m_load")]
          /\ stores' = IF gor[g].pend = {f}
                       THEN [stores EXCEPT !.method = stores.method + 1] ELSE stores
    /\ UNCHANGED <<method, event, pool, ncalls, called>>

\* The word f of a slice header read into the header val.
ReadHeaderWord(val, f, id) ==
    IF f = "ptr" THEN [val EXCEPT !.ptr = id.ptr] ELSE [val EXCEPT !.len = id.len]

\* Method.ID: return m.id reads one more word of the header; the call
\* returns with the last.
MethodLoad(g) ==
    /\ gor[g].pc = "m_load"
    /\ \E f \in gor[g].pend :
          gor' = [gor EXCEPT ![g] =
                    AfterHeaderWord([gor[g] EXCEPT !.val =
                                        ReadHeaderWord(gor[g].val, f, heap[method].id)],
                                    f, "done")]
    /\ UNCHANGED <<heap, method, event, pool, ncalls, called, stores>>

\* ------------------------------------------------------------------------
\* readSlice and readInteger called on their own
\* ------------------------------------------------------------------------
NoCallYet == [st |-> "none"]

FnIdle == fn = "none" /\ actual = <<>> /\ got = NoCallYet

\* readSlice(buf, start, length): buf is the input, of at most MaxBufWords
\* words with the last bytes cut off or left in its capacity.
ReadSliceInit ==
    /\ typ = 1
    /\ \E w \in WordSeqs(MaxBufWords), c \in 0..MaxCut :
          /\ c <= 32 * Len(w)
          /\ input = w
          /\ inLen = 32 * Len(w) - c
          /\ inCap \in {32 * Len(w) - c, 32 * Len(w)}
    /\ pc = "idle"
    /\ orig = Sl(0, 0)
    /\ data = Sl(0, 0)
    /\ size = 0
    /\ indx = 0
    /\ res = <<>>
    /\ entry = Sl(0, 0)
    /\ ret = NoRet
    /\ oob = FALSE
    /\ fn = "readSlice"
    /\ actual \in [start : -MaxArg..MaxArg, length : -MaxArg..MaxArg]
    /\ got = NoCallYet

CallReadSlice ==
    /\ fn = "readSlice"
    /\ got = NoCallYet
    /\ got' = readSlice(Input, actual.start, actual.length)
    /\ UNCHANGED <<fn, actual>>

\* The widths of the integer types.
Widths == {8, 16, 24, 32, 64, 128, 256}

IntTypes ==
    {Prim("uint", n, "uint" \o Itoa(n)) : n \in Widths}
        \cup {Prim("int", n, "int" \o Itoa(n)) : n \in Widths}

\* The words readInteger is called on: a first byte, a last byte and the 30
\* bytes between them all alike.
IntWords ==
    {[i \in 1..32 |-> CASE i = 1 -> hi [] i = 32 -> lo [] OTHER -> mid] :
        hi \in {0, 1, 127, 128, 255}, mid \in {0, 255}, lo \in {0, 1, 127, 128, 255}}

ReadIntegerInit ==
    /\ fn = "readInteger"
    /\ actual \in [t : IntTypes, b : IntWords]
    /\ got = NoCallYet

CallReadInteger ==
    /\ fn = "readInteger"
    /\ got = NoCallYet
    /\ got' = [st |-> "ok", val |-> readInteger(actual.t, actual.b)]
    /\ UNCHANGED <<fn, actual>>

\* ------------------------------------------------------------------------
\* Specifications
\* ------------------------------------------------------------------------
InitDecode == DecInit /\ AbiIdle /\ ObjIdle /\ GoIdle /\ FnIdle

NextDecode ==
    \/ DecodeValue /\ UNCHANGED <<abiVars, objVars, goVars, fnVars>>
    \/ DecodeTupleEnter /\ UNCHANGED <<abiVars, objVars, goVars, fnVars>>
    \/ DecodeTupleIter /\ UNCHANGED <<abiVars, objVars, goVars, fnVars>>
    \/ DecodeTupleReturn /\ UNCHANGED <<abiVars, objVars, goVars, fnVars>>
    \/ DecodeArrayEnter /\ UNCHANGED <<abiVars, objVars, goVars, fnVars>>
    \/ DecodeArrayIter /\ UNCHANGED <<abiVars, objVars, goVars, fnVars>>
    \/ DecodeArrayReturn /\ UNCHANGED <<abiVars, objVars, goVars, fnVars>>

SpecDecode == InitDecode /\ [][NextDecode]_vars

InitABI == AbiInit /\ DecIdle /\ ObjIdle /\ GoIdle /\ FnIdle

NextABI ==
    \/ ParseField /\ UNCHANGED <<decVars, objVars, goVars, fnVars>>
    \/ ParseEnd /\ UNCHANGED <<decVars, objVars, goVars, fnVars>>
    \/ NewABIReturn /\ UNCHANGED <<decVars, objVars, goVars, fnVars>>

SpecABI == InitABI /\ [][NextABI]_vars

InitObjects == ObjInit /\ DecIdle /\ AbiIdle /\ GoIdle /\ FnIdle

NextObjects ==
    \/ CallMethodID /\ UNCHANGED <<decVars, abiVars, goVars, fnVars>>
    \/ CallEventID /\ UNCHANGED <<decVars, abiVars, goVars, fnVars>>
    \/ CallEventMatch /\ UNCHANGED <<decVars, abiVars, goVars, fnVars>>
    \/ CallEventParseLog /\ UNCHANGED <<decVars, abiVars, goVars, fnVars>>
    \/ CallTypeClone /\ UNCHANGED <<decVars, abiVars, goVars, fnVars>>
    \/ CallMethodClone /\ UNCHANGED <<decVars, abiVars, goVars, fnVars>>
    \/ CallEventClone /\ UNCHANGED <<decVars, abiVars, goVars, fnVars>>

SpecObjects == InitObjects /\ [][NextObjects]_vars

InitShared == ObjInit /\ DecIdle /\ AbiIdle /\ GoIdle /\ FnIdle

NextShared ==
    \/ \E g \in Goroutines : EventCheck(g) /\ UNCHANGED <<decVars, abiVars, fnVars>>
    \/ \E g \in Goroutines : EventHash(g) /\ UNCHANGED <<decVars, abiVars, fnVars>>
    \/ \E g \in Goroutines : EventCopy(g) /\ UNCHANGED <<decVars, abiVars, fnVars>>
    \/ \E g \in Goroutines : EventLoad(g) /\ UNCHANGED <<decVars, abiVars, fnVars>>
    \/ \E g \in Goroutines : MethodCheck(g) /\ UNCHANGED <<decVars, abiVars, fnVars>>
    \/ \E g \in Goroutines : MethodHash(g) /\ UNCHANGED <<decVars, abiVars, fnVars>>
    \/ \E g \in Goroutines : MethodStore(g) /\ UNCHANGED <<decVars, abiVars, fnVars>>
    \/ \E g \in Goroutines : MethodLoad(g) /\ UNCHANGED <<decVars, abiVars, fnVars>>

SpecShared == InitShared /\ [][NextShared]_vars

InitReadSlice == ReadSliceInit /\ AbiIdle /\ ObjIdle /\ GoIdle

NextReadSlice ==
    \/ CallReadSlice /\ UNCHANGED <<decVars, abiVars, objVars, goVars>>

SpecReadSlice == InitReadSlice /\ [][NextReadSlice]_vars

InitReadInteger == ReadIntegerInit /\ DecIdle /\ AbiIdle /\ ObjIdle /\ GoIdle

NextReadInteger ==
    \/ CallReadInteger /\ UNCHANGED <<decVars, abiVars, objVars, goVars>>

SpecReadInteger == InitReadInteger /\ [][NextReadInteger]_vars

\* ------------------------------------------------------------------------
\* Properties of Decode
\* ------------------------------------------------------------------------
\* C1: Decode returns a value or an error for every type and input: it
\* never panics and never reads the input at an index outside [0, len(b)).
C1_DecodeTotalInBounds == ret.st /= "panic" /\ ~oob

\* The first word of the input, and the length prefix it denotes.
FirstWord == SliceBytes(Sl(0, 32))
PrefixLen == SmallValue(FirstWord)

\* The input of a String or Bytes holds a length prefix L and at least L
\* bytes after it.
HoldsPayload == inLen >= 32 /\ BitLen(FirstWord) <= 24 /\ 32 + PrefixLen <= inLen

\* C2: a String or Bytes whose input holds a length prefix L followed by at
\* least L bytes decodes to exactly the L bytes after the prefix, for every
\* L >= 0: for L = 0 to the empty value, whatever follows the prefix.
C2_PayloadIsLengthBytes ==
    (pc = "done" /\ T.kind \in {"string", "bytes"} /\ HoldsPayload)
        => /\ ret.st = "ok"
           /\ ret.val = SliceBytes(Sl(32, PrefixLen))

\* The element type of the pass the loop of decodeTuple or decodeArraySlice
\* is about to make.
InLoop == (pc = "tuple" /\ indx < Len(T.tuple)) \/ (pc = "array" /\ indx < size)
ElemType == IF pc = "tuple" THEN T.tuple[indx + 1].Elem ELSE T.elem

\* The head word at the cursor, and the offset it denotes.
HeadWord == SliceBytes(Sl(data.off, 32))
HeadOffset == SmallValue(HeadWord)

\* C3: in decodeTuple and decodeArraySlice the head word of a dynamic element
\* is read as an offset o. Decoding fails with an error if o is not in
\* [0, 2^63) or o > len(origin); otherwise the element is decoded from
\* origin[o..], origin being the start of the enclosing region and not the
\* cursor, and the cursor advances by exactly 32 bytes.
C3_OffsetFromOrigin ==
    [][(InLoop /\ isDynamicType(ElemType) /\ data.len >= 32) =>
        IF BitLen(HeadWord) > 63 \/ ValueGt(HeadWord, orig.len)
        THEN pc' = "done" /\ ret'.st = "err"
        ELSE /\ entry' = Sl(orig.off + HeadOffset, orig.len - HeadOffset)
             /\ IF decode(ElemType, entry').st /= "ok"
                THEN pc' = "done" /\ ret'.st = decode(ElemType, entry').st
                ELSE pc' = pc =>
                        /\ indx' = indx + 1
                        /\ data' = Sl(data.off + 32, data.len - 32)
                        /\ pc = "array" => res'[indx'] = decode(ElemType, entry').val
      ]_decVars

\* A second, dynamic tuple element was decoded from its offset in the origin
\* while the cursor stood 32 bytes into the tuple.
C3_Witness ==
    /\ pc = "tuple"
    /\ indx = 2
    /\ isDynamicType(T.tuple[2].Elem)
    /\ entry = Sl(64, inLen - 64)
    /\ data = Sl(64, inLen - 64)

\* C4: a Bool is decoded from the two canonical words only, 32 zero bytes
\* (false) and 31 zero bytes followed by 0x01 (true); every other 32-byte
\* word yields an error.
C4_BoolCanonical ==
    (pc = "done" /\ T.kind = "bool" /\ inLen >= 32) =>
        /\ ret.st = "ok" <=> FirstWord \in {MkWord(0, 0, 0), MkWord(0, 0, 1)}
        /\ ret.st = "ok" => ret.val = (FirstWord = MkWord(0, 0, 1))

\* ------------------------------------------------------------------------
\* Properties of NewABI
\* ------------------------------------------------------------------------
\* A pass of the loop of UnmarshalJSON has taken a field.
FieldTaken == nfields' = nfields + 1

\* The key the overload rule gives name n among the keys taken: n if it is
\* free, else n followed by the smallest k >= 0 that makes a free key.
FreeKey(keys, n) ==
    IF n \notin keys THEN n
    ELSE n \o Itoa(CHOOSE k \in 0..Cardinality(keys) :
                        /\ (n \o Itoa(k)) \notin keys
                        /\ \A j \in 0..(k - 1) : (n \o Itoa(j)) \in keys)

\* Map new is map old with one more key, the overload key of name n, and the
\* object stored under it has Name n.
StoredUnderFreeKey(old, new, n) ==
    /\ DOMAIN new = DOMAIN old \cup {FreeKey(DOMAIN old, n)}
    /\ FreeKey(DOMAIN old, n) \notin DOMAIN old
    /\ new[FreeKey(DOMAIN old, n)].Name = n
    /\ \A k \in DOMAIN old : new[k] = old[k]

KnownTypes == {"constructor", "function", "", "event", "error", "fallback", "receive"}

\* C10: fields of type error, fallback and receive change nothing in
\* Constructor, Methods or Events; a field of a type that is not known makes
\* NewABI return an error and no document; so does a second constructor,
\* which does not replace the first.
C10_FieldDispatch ==
    /\ [][(FieldTaken /\ last'.Type \in {"error", "fallback", "receive"}) =>
            abi' = abi /\ ~perr']_vars
    /\ [][(FieldTaken /\ last'.Type \notin KnownTypes) => perr' /\ abi' = abi]_vars
    /\ [][(FieldTaken /\ last'.Type = "constructor" /\ abi.Constructor /= Nil) =>
            perr' /\ abi'.Constructor = abi.Constructor]_vars
    /\ [][perr => (perr' /\ abi' = abi /\ nfields' = nfields)]_vars
    /\ [](ppc = "done" => (out = Nil <=> perr))

\* NewABI returned an error and no document on a second constructor.
C10_Witness ==
    /\ ppc = "done"
    /\ perr
    /\ out = Nil
    /\ last.Type = "constructor"
    /\ nfields > 1
    /\ abi.Constructor /= Nil

\* ------------------------------------------------------------------------
\* Properties of Clone, ID, Match and ParseLog
\* ------------------------------------------------------------------------
RECURSIVE TypeEqual(_, _, _)
\* The Types at a and b are structurally equal: same kind, size, raw, t and
\* element type, and the same tuple elements in order, each with the same
\* name, indexed flag and element type.
TypeEqual(h, a, b) ==
    IF a = 0 \/ b = 0 THEN a = b
    ELSE /\ h[a].kind = h[b].kind
         /\ h[a].size = h[b].size
         /\ h[a].raw = h[b].raw
         /\ h[a].t = h[b].t
         /\ TypeEqual(h, h[a].elem, h[b].elem)
         /\ h[a].tuple.nil = h[b].tuple.nil
         /\ Len(h[a].tuple.elems) = Len(h[b].tuple.elems)
         /\ \A i \in 1..Len(h[a].tuple.elems) :
               /\ h[h[a].tuple.elems[i]].Name = h[h[b].tuple.elems[i]].Name
               /\ h[h[a].tuple.elems[i]].Indexed = h[h[b].tuple.elems[i]].Indexed
               /\ TypeEqual(h, h[h[a].tuple.elems[i]].Elem, h[h[b].tuple.elems[i]].Elem)

RECURSIVE TypeNodes(_, _)
\* The addresses of the Types and TupleElems of the Type tree at a.
TypeNodes(h, a) ==
    IF a = 0 THEN {}
    ELSE {a} \cup TypeNodes(h, h[a].elem)
             \cup UNION {{h[a].tuple.elems[i]} \cup TypeNodes(h, h[h[a].tuple.elems[i]].Elem) :
                            i \in 1..Len(h[a].tuple.elems)}

\* The Type trees at a and b are equal and share no node.
DeepCopy(h, a, b) == TypeEqual(h, a, b) /\ TypeNodes(h, a) \cap TypeNodes(h, b) = {}

\* C6: t.Clone() is a deep copy structurally equal to t, tuple element names
\* included, that shares no node with t; Method.Clone and Event.Clone yield
\* a value equal to the original that shares neither a Type nor the cached
\* id bytes with it.
C6_CloneDeepEqual ==
    /\ called.op = "Type.Clone" => DeepCopy(heap, called.obj, called.val)
    /\ called.op = "Method.Clone" =>
          /\ called.val /= called.obj
          /\ heap[called.val].Name = heap[called.obj].Name
          /\ heap[called.val].Const = heap[called.obj].Const
          /\ DeepCopy(heap, heap[called.obj].Inputs, heap[called.val].Inputs)
          /\ DeepCopy(heap, heap[called.obj].Outputs, heap[called.val].Outputs)
          /\ BytesOf(heap, heap[called.val].id) = BytesOf(heap, heap[called.obj].id)
          /\ heap[called.obj].id.ptr /= 0 => heap[called.val].id.ptr /= heap[called.obj].id.ptr
    /\ called.op = "Event.Clone" =>
          /\ called.val /= called.obj
          /\ heap[called.val].Name = heap[called.obj].Name
          /\ heap[called.val].Anonymous = heap[called.obj].Anonymous
          /\ DeepCopy(heap, heap[called.obj].Inputs, heap[called.val].Inputs)
          /\ heap[called.val].id = heap[called.obj].id

\* C8: every call of ID(), the first and the later ones, returns the same
\* value: keccak256(Sig()), its first 4 bytes for a Method and all 32 for an
\* Event. The value is cached in place and is that of the signature alone
\* (0x92277933 for abc(), as abi_test.go expects).
C8_IDStable ==
    /\ called.op = "Method.ID" =>
          /\ called.val.ptr /= 0
          /\ BytesOf(heap, called.val) = SubSeq(Keccak(Sig(heap, method)), 1, 4)
          /\ heap[method].id = called.val
          /\ heap[method].Name = "abc" => BytesOf(heap, called.val) = <<146, 39, 121, 51>>
    /\ called.op = "Event.ID" =>
          /\ called.val = Keccak(Sig(heap, event))
          /\ heap[event].id = called.val
    /\ heap[method].id.len > 0 =>
          BytesOf(heap, heap[method].id) = SubSeq(Keccak(Sig(heap, method)), 1, 4)
    /\ heap[event].id /= ZeroHash => heap[event].id = Keccak(Sig(heap, event))

\* Method.ID returned on its third call, the Event's id being cached as well
\* by a hasher taken from the pool.
C8_Witness ==
    /\ called.op = "Method.ID"
    /\ ncalls = 3
    /\ Len(pool) = 1
    /\ heap[event].id /= ZeroHash
    /\ heap[method].Name = "transfer"
    /\ BytesOf(heap, called.val) = <<169, 5, 156, 187>>

\* match(event, log): the log has a topics[0], and it is the event's id.
TopicIsID(log) == Len(log.Topics) > 0 /\ log.Topics[1] = Keccak(Sig(heap, event))

\* C9: ParseLog of an anonymous event makes no topics[0] check: it never
\* rejects a log as not matching. ParseLog of any other event rejects
\* exactly the logs for which Match is false, and Match is true iff the log
\* has a topics[0] equal to the event's id.
C9_AnonymousNotMatched ==
    /\ called.op = "Event.Match" => (called.val <=> TopicIsID(called.log))
    /\ called.op = "Event.ParseLog" =>
          IF heap[event].Anonymous THEN called.val = "parse"
          ELSE called.val = "nomatch" <=> ~TopicIsID(called.log)

\* The value a returned call of ID must have returned.
ReturnedWhole(r) ==
    IF r.op = "Method.ID"
    THEN /\ r.val.ptr /= 0
         /\ r.val.len = 4
         /\ BytesOf(heap, r.val) = SubSeq(Keccak(Sig(heap, method)), 1, 4)
    ELSE r.val = Keccak(Sig(heap, event))

\* C7: whatever the interleaving of the goroutines' calls of ID on the
\* shared Method and Event, each cached id is stored at most once and every
\* call that has returned returned the whole keccak256(Sig()) value, its
\* first 4 bytes for the Method and all 32 for the Event; none returned an
\* id written in part.
C7_MemoizedOnce ==
    /\ stores.method <= 1
    /\ stores.event <= 1
    /\ \A g \in Goroutines : gor[g].pc = "done" => ReturnedWhole(gor[g])

\* ------------------------------------------------------------------------
\* Properties of decodeTuple, readSlice and readInteger
\* ------------------------------------------------------------------------
\* The key of each element of the tuple: its name, or its index in decimal.
TupleKeys == {keyOf(T.tuple[i], i - 1) : i \in 1..Len(T.tuple)}

\* Two elements of the tuple have the same declared name.
SameName ==
    \E i, j \in 1..Len(T.tuple) :
        i < j /\ T.tuple[i].Name /= "" /\ T.tuple[i].Name = T.tuple[j].Name

\* The head slot of element i (1-based) of a tuple whose static elements
\* take one word each, and the input the element is decoded from: the input
\* from the offset in the slot for a dynamic element, from the slot itself
\* for a static one.
HeadSlot(i) == Sl(32 * (i - 1), 32)
HeadEntry(i) ==
    IF isDynamicType(T.tuple[i].Elem)
    THEN Sl(SmallValue(SliceBytes(HeadSlot(i))), inLen - SmallValue(SliceBytes(HeadSlot(i))))
    ELSE Sl(32 * (i - 1), inLen - 32 * (i - 1))

\* A successful Tuple result: one entry per element, under the element's
\* key, holding the element's decoded value.
TupleIsMapping ==
    /\ DOMAIN ret.val = TupleKeys
    /\ Cardinality(TupleKeys) = Len(T.tuple)
    /\ \A i \in 1..Len(T.tuple) :
          ret.val[keyOf(T.tuple[i], i - 1)] = decode(T.tuple[i].Elem, HeadEntry(i)).val

\* C11: a Tuple that decodes yields a mapping with exactly one entry per
\* element, keyed by the element's name, or by the decimal index of its
\* position when the name is empty, holding the element's value. Decoding
\* fails when two elements have the same name, and the repeated-values error
\* is given only then: a tuple whose declared names are pairwise distinct is
\* never rejected as a duplicate.
C11_TupleMapping ==
    (pc = "done" /\ T.kind = "tuple") =>
        /\ ret.st = "ok" => TupleIsMapping
        /\ SameName => ret.st /= "ok"
        /\ ret.st = "dup" => SameName

\* The bounds of the slice readSlice is to return.
SliceStart == IF actual.start < 0 THEN inLen + actual.start ELSE actual.start
SliceEnd ==
    IF actual.length = 0 THEN inLen
    ELSE IF actual.length > 0 THEN SliceStart + actual.length
    ELSE inLen + actual.length

\* C12: for every buf and every start and length, readSlice(buf, start,
\* length) returns an error or exactly buf[s:e] with 0 <= s <= e <= len(buf),
\* where s = start, or len(buf) + start when start < 0, and e = len(buf) when
\* length = 0, s + length when length > 0, len(buf) + length when length < 0.
\* No combination leads to an out-of-range slice.
C12_ReadSliceTotal ==
    (fn = "readSlice" /\ got /= NoCallYet) =>
        /\ got.st \in {"ok", "err"}
        /\ got.st = "ok" =>
              /\ 0 <= SliceStart
              /\ SliceStart <= SliceEnd
              /\ SliceEnd <= inLen
              /\ got.s = Sl(SliceStart, SliceEnd - SliceStart)

\* The integer the whole word denotes: the word itself for a Uint, its
\* two's complement over 256 bits for an Int.
WholeWord(t, b) == IF t.kind = "uint" THEN IntVal(FALSE, Strip(b)) ELSE Signed(b)

\* C13: an Int or Uint of any declared width decodes to the integer denoted
\* by the whole 32-byte big-endian word v: v for a Uint, and for an Int v if
\* v < 2^255 and v - 2^256 otherwise. This holds for the big-integer and the
\* native 8, 16, 32 and 64-bit representations alike: no nonzero high-order
\* byte of the word is dropped.
C13_IntegerOfWholeWord ==
    (fn = "readInteger" /\ got /= NoCallYet) => got.val = WholeWord(actual.t, actual.b)
====
